---- MODULE Spec2Model ----
(***************************************************************************)
(* Model of src/app.py: a Streamlit page that fetches a Google News RSS    *)
(* feed (fetch_news, cached for 300 s by st.cache_data), sanitises each    *)
(* entry and renders the articles as cards.                                *)
(*                                                                         *)
(* Text is a sequence of one-character strings.  Characters outside ASCII  *)
(* are written by code point: "U2026" is the ellipsis mark, "U5E74",       *)
(* "U6708", "U65E5" are the year/month/day signs of the date format.       *)
(* A missing attribute of a feed entry is the empty tuple None, a present  *)
(* one is the one-element tuple Some(v).                                   *)
(***************************************************************************)
EXTENDS Integers, Sequences, FiniteSets, TLC

VARIABLES
    \* ---- session and script state of the page (src/app.py:180-277) ----
    pc,             \* position of the script run
    quick_query,    \* st.session_state["quick_query"]: None or Some(tag)
    default_query,  \* local default_query (line 180)
    query,          \* local query (line 184)
    num_articles,   \* local num_articles (line 189)
    clicked,        \* the quick-tag button whose click started this run
    textInput,      \* the browser's text field: None or Some([value, text])
    sliderValue,    \* the browser's slider
    articles,       \* local articles (line 222)
    page,           \* what the finished run shows (lines 225-277)
    \* ---- st.cache_data(ttl=300) around fetch_news (line 135) ----
    cache,          \* (query, num) -> None or Some([at, val])
    now,            \* clock, seconds
    ticks,          \* number of clock advances so far
    netReads,       \* number of feedparser.parse calls so far
    \* ---- history, read by the properties only ----
    pressed,        \* None or Some([tag, text]): the last interaction was a
                    \* press of tag while the text field held text
    lastRead,       \* (query, num) -> None or Some([at, val]): the last
                    \* network read for the pair that returned
    lastCall,       \* None or Some([key, network, feed, raised]): the last
                    \* fetch_news call of the page
    \* ---- one direct call of fetch_news on a given feed ----
    entries,        \* feed.entries as parsed (line 143)
    num,            \* the num argument
    result          \* None before the call, Some(outcome) after it

appVars == <<pc, quick_query, default_query, query, num_articles, clicked,
             textInput, sliderValue, articles, page,
             cache, now, ticks, netReads, pressed, lastRead, lastCall>>
fetchVars == <<entries, num, result>>
vars == <<appVars, fetchVars>>

None == <<>>
Some(v) == <<v>>

\* ------------------------------------------------------------------------
\* Bounds of the model
\* ------------------------------------------------------------------------
MaxEntries == 3     \* longest feed of simple entries
MaxLimit == 3       \* largest num of a direct call
MaxOver == 1        \* summaries run up to TruncLen + MaxOver characters
MaxReads == 2       \* network reads in one behaviour of the page
MaxPageTicks == 1   \* clock advances in one behaviour of the page
MaxTicks == 2       \* clock advances between the direct calls

\* ------------------------------------------------------------------------
\* Program constants
\* ------------------------------------------------------------------------
TTL == 300          \* @st.cache_data(ttl=300)
TruncLen == 300     \* len(summary) > 300, summary[:300]
SliderMin == 5      \* st.slider(min_value=5, max_value=30, value=15, step=5)
SliderMax == 30
SliderStep == 5
SliderDefault == 15

\* ------------------------------------------------------------------------
\* Text helpers
\* ------------------------------------------------------------------------
Rep(c, n) == [i \in 1..n |-> c]

Min(a, b) == IF a <= b THEN a ELSE b

\* seq[:n] for n >= 0
Take(seq, n) == SubSeq(seq, 1, Min(n, Len(seq)))

Whitespace == {" ", "\t", "\n"}

\* str.strip(): drop leading and trailing whitespace
Strip(s) ==
    LET keep == {i \in 1..Len(s) : s[i] \notin Whitespace}
    IN  IF keep = {} THEN <<>>
        ELSE LET lo == CHOOSE i \in keep : \A j \in keep : i <= j
                 hi == CHOOSE i \in keep : \A j \in keep : j <= i
             IN  SubSeq(s, lo, hi)

\* Where the pattern <[^>]+> matches at i: a "<", at least one character
\* other than ">", and the first ">" after them.
MatchEnd(s, i) ==
    LET closers == {j \in (i + 2)..Len(s) : s[j] = ">"}
    IN  IF s[i] = "<" /\ i + 1 <= Len(s) /\ s[i + 1] # ">" /\ closers # {}
        THEN CHOOSE j \in closers : \A k \in closers : j <= k
        ELSE 0

\* re.sub(r"<[^>]+>", "", s): scanning left to right from i, the text up to
\* the next match is kept, the match is dropped, and the scan goes on behind it.
RECURSIVE StripFrom(_, _)
StripFrom(s, i) ==
    LET starts == {m \in i..Len(s) : MatchEnd(s, m) # 0}
    IN  IF starts = {} THEN SubSeq(s, i, Len(s))
        ELSE LET m == CHOOSE x \in starts : \A y \in starts : x <= y
             IN  SubSeq(s, i, m - 1) \o StripFrom(s, MatchEnd(s, m) + 1)

StripTags(s) == StripFrom(s, 1)

\* html.escape as it would be with the replacement of ">" forgotten
EscapeCharKeepsGt(c) ==
    CASE c = "&"  -> <<"&", "a", "m", "p", ";">>
      [] c = "<"  -> <<"&", "l", "t", ";">>
      [] c = "\"" -> <<"&", "q", "u", "o", "t", ";">>
      [] c = "'"  -> <<"&", "#", "x", "2", "7", ";">>
      [] OTHER    -> <<c>>

\* html.escape(c) for one character (quote=True)
EscapeChar(c) ==
    CASE c = "&"  -> <<"&", "a", "m", "p", ";">>
      [] c = "<"  -> <<"&", "l", "t", ";">>
      [] c = ">"  -> <<"&", "g", "t", ";">>
      [] c = "\"" -> <<"&", "q", "u", "o", "t", ";">>
      [] c = "'"  -> <<"&", "#", "x", "2", "7", ";">>
      [] OTHER    -> <<c>>

\* the replacements of s[lo..hi], in order
RECURSIVE EscapeRange(_, _, _)
EscapeRange(s, lo, hi) ==
    IF lo > hi THEN <<>>
    ELSE IF lo = hi THEN EscapeChar(s[lo])
    ELSE LET mid == (lo + hi) \div 2
         IN  EscapeRange(s, lo, mid) \o EscapeRange(s, mid + 1, hi)

\* html.escape(s)
escape(s) == EscapeRange(s, 1, Len(s))

Ellipsis == <<"U2026">>

\* the placeholder shown for an entry without summary text (line 167)
Placeholder == <<"U8981", "U7D04", "U306F", "U3042", "U308A", "U307E", "U305B", "U3093", "U3002">>

\* the cut of lines 162-163 as it would be keeping one character too many
TruncateOneMore(s) ==
    IF Len(s) > TruncLen THEN SubSeq(s, 1, TruncLen + 1) \o <<"U2026">> ELSE s

\* lines 162-163: cut to 300 characters plus the mark
Truncate(s) == IF Len(s) > TruncLen THEN SubSeq(s, 1, TruncLen) \o Ellipsis ELSE s

\* lines 159-167: the summary field of an article; raw is None or Some(text)
SafeSummary(raw) ==
    LET summary == Truncate(Strip(StripTags(IF raw = None THEN <<>> ELSE raw[1])))
    IN  IF summary # <<>> THEN escape(summary) ELSE Placeholder

\* ------------------------------------------------------------------------
\* Dates (lines 147-156)
\* ------------------------------------------------------------------------
Digit(d) == <<"0", "1", "2", "3", "4", "5", "6", "7", "8", "9">>[d + 1]

Pad2(n) == <<Digit((n \div 10) % 10), Digit(n % 10)>>

Pad4(n) == <<Digit((n \div 1000) % 10), Digit((n \div 100) % 10)>> \o Pad2(n % 100)

IsLeap(y) == (y % 4 = 0 /\ y % 100 # 0) \/ y % 400 = 0

DaysInMonth(y, m) ==
    IF m = 2 THEN (IF IsLeap(y) THEN 29 ELSE 28)
    ELSE IF m \in {4, 6, 9, 11} THEN 30 ELSE 31

\* datetime(*parts) accepts the parts: year, month, day and up to three more
DatetimeOk(parts) ==
    /\ Len(parts) >= 3
    /\ parts[1] \in 1..9999
    /\ parts[2] \in 1..12
    /\ parts[3] \in 1..DaysInMonth(parts[1], parts[2])
    /\ Len(parts) >= 4 => parts[4] \in 0..23
    /\ Len(parts) >= 5 => parts[5] \in 0..59
    /\ Len(parts) >= 6 => parts[6] \in 0..59

Part(parts, i) == IF Len(parts) >= i THEN parts[i] ELSE 0

\* dt.strftime("%Y<U5E74>%m<U6708>%d<U65E5> %H:%M"), line 152
Strftime(parts) ==
    Pad4(parts[1]) \o <<"U5E74">> \o Pad2(parts[2]) \o <<"U6708">>
        \o Pad2(parts[3]) \o <<"U65E5", " ">>
        \o Pad2(Part(parts, 4)) \o <<":">> \o Pad2(Part(parts, 5))

\* getattr(entry, "published", "")
RawPublished(entry) == IF entry.published = None THEN <<>> ELSE entry.published[1]

\* lines 147-156 as they would be with the except branch leaving published empty
PublishedNoFallback(entry) ==
    IF entry.published_parsed # None /\ entry.published_parsed[1] # <<>>
    THEN LET parts == Take(entry.published_parsed[1], 6)
         IN  IF DatetimeOk(parts) THEN Strftime(parts) ELSE <<>>
    ELSE RawPublished(entry)

\* lines 147-156. published_parsed is None (no attribute) or Some(t) with t
\* the time tuple, the empty tuple standing for a falsy value.
Published(entry) ==
    IF entry.published_parsed # None /\ entry.published_parsed[1] # <<>>
    THEN LET parts == Take(entry.published_parsed[1], 6)
         IN  IF DatetimeOk(parts) THEN Strftime(parts) ELSE RawPublished(entry)
    ELSE RawPublished(entry)

\* ------------------------------------------------------------------------
\* fetch_news (lines 136-175)
\* ------------------------------------------------------------------------
\* entry.title (line 166) and entry.link (line 171) are plain attribute
\* reads: on an entry without the attribute they raise AttributeError.
EntryRaises(entry) == entry.title = None \/ entry.link = None

\* lines 169-174
Article(entry) ==
    [title     |-> escape(entry.title[1]),
     link      |-> entry.link[1],
     published |-> Published(entry),
     summary   |-> SafeSummary(entry.summary)]

\* The loop of lines 144-175 over feed.entries[:n]: the articles, or the
\* exception of the first entry that raises.
fetch_news(feed, n) ==
    LET taken == Take(feed, n)
    IN  IF \E i \in 1..Len(taken) : EntryRaises(taken[i])
        THEN [raised |-> TRUE, articles |-> <<>>]
        ELSE [raised |-> FALSE,
              articles |-> [i \in 1..Len(taken) |-> Article(taken[i])]]

\* ------------------------------------------------------------------------
\* Feeds given to a direct call of fetch_news
\* ------------------------------------------------------------------------
Entry(t, l, pp, p, s) ==
    [title |-> t, link |-> l, published_parsed |-> pp, published |-> p, summary |-> s]

SummaryChars == {"a", "&", "<", ">", " ", "\""}
SummaryLens == {0, 1, 2} \cup (TruncLen - 1)..(TruncLen + MaxOver)
SummaryPre == {<<>>, <<"<", "b", ">">>, <<" ">>, <<"<">>}
SummaryPost == {<<>>, <<"<", "/", "b", ">">>, <<">">>}
SummaryTexts ==
    {pre \o Rep(c, n) \o post :
        pre \in SummaryPre, c \in SummaryChars, n \in SummaryLens, post \in SummaryPost}

Titles == {<<"a">>, <<"<", "b", ">", "x">>, <<"a", "&", "b">>, <<"<", "'", ">">>}

\* time tuples as feedparser hands them over (nine fields); the second and
\* third do not name a date, the last is a falsy value
TimeTuples ==
    {<<2024, 2, 29, 9, 5, 7, 3, 60, 0>>,
     <<2023, 2, 29, 9, 5, 7, 2, 60, 0>>,
     <<2024, 13, 1, 0, 0, 0, 0, 1, 0>>,
     <<>>}

RawDates == {<<"M", "o", "n">>, <<"<", "1", ">">>}

Opt(S) == {None} \cup {Some(v) : v \in S}

LongEntries ==
    {Entry(Some(<<"a">>), Some("https://example.org/1"), None, None, Some(s)) :
        s \in SummaryTexts}

FieldEntries ==
    {Entry(t, l, pp, p, s) :
        t \in Opt(Titles), l \in Opt({"https://example.org/1"}),
        pp \in Opt(TimeTuples), p \in Opt(RawDates),
        s \in Opt({<<"<", "b", ">", " ">>, <<"x", "<", "y">>})}

SimpleEntries ==
    {Entry(Some(<<c>>), Some("https://example.org/1"), None, None, None) :
        c \in {"a", "b", "c"}}
    \cup {Entry(None, Some("https://example.org/1"), None, None, None)}

SeqsUpTo(S, n) == UNION {[1..k -> S] : k \in 0..n}

Feeds ==
    {<<e>> : e \in LongEntries \cup FieldEntries} \cup SeqsUpTo(SimpleEntries, MaxEntries)

\* ------------------------------------------------------------------------
\* The page (lines 178-277)
\* ------------------------------------------------------------------------
DefaultQuery == "Artificial Intelligence"

\* line 193; the second, fourth, fifth and sixth labels are Japanese words,
\* written here in Latin letters
quick_tags == <<"ChatGPT", "SeiseiAI", "LLM", "KikaiGakushu", "Robotics", "JidoUnten">>

Tags == {quick_tags[i] : i \in 1..Len(quick_tags)}

\* what the user types into the text field
TypedQueries == {"Rust"}

Queries == {DefaultQuery} \cup Tags \cup TypedQueries

\* the positions of the slider (line 189)
SliderValues == {n \in SliderMin..SliderMax : (n - SliderMin) % SliderStep = 0}

\* the positions the user moves the slider to
SliderMoves == {SliderMax}

\* the feeds the endpoint may answer with; the empty one is also what
\* feedparser.parse hands over after a failed download
NetFeeds ==
    LET e(c) == Entry(Some(<<c>>), Some("https://example.org/1"), None, None, None)
    IN  {<<>>, <<e("a"), e("b")>>,
         <<Entry(None, Some("https://example.org/1"), None, None, None)>>}

\* the key as it would be if num were left out of it
CacheKeyQueryOnly(q, n) == <<q, SliderDefault>>

\* st.cache_data keys an entry by the arguments of the call
CacheKey(q, n) == <<q, n>>

Keys == Queries \X SliderValues

\* the entry of ttl=300 is served while it is younger than ttl
Fresh(slot, t) == slot # None /\ t < slot[1].at + TTL

\* The decorated fetch_news(q, n) at time t with cache c, feed being what
\* the endpoint answers if it is asked: the cached value, or a network read
\* whose result is stored unless fetch_news raised.
CachedFetch(c, q, n, t, feed) ==
    LET k == CacheKey(q, n)
    IN  IF Fresh(c[k], t)
        THEN [network |-> FALSE, raised |-> FALSE, articles |-> c[k][1].val, cache |-> c]
        ELSE LET r == fetch_news(feed, n)
             IN  [network |-> TRUE, raised |-> r.raised, articles |-> r.articles,
                  cache |-> IF r.raised THEN c
                            ELSE [c EXCEPT ![k] = Some([at |-> t, val |-> r.articles])]]

\* line 180 as it would be with get in place of pop
GetQuery(state) ==
    [value |-> IF state # None THEN state[1] ELSE DefaultQuery, state |-> state]

\* line 180: st.session_state.pop("quick_query", "Artificial Intelligence")
PopQuery(state) ==
    [value |-> IF state # None THEN state[1] ELSE DefaultQuery, state |-> None]

\* the text field as it would be with a key=: it keeps its text whatever value= is
TextInputKeepsText(widget, value) ==
    IF widget # None THEN widget[1].text ELSE value

\* lines 184-188: st.text_input(..., value=default_query) without a key.
\* The widget is told apart by its parameters: with the value= the browser's
\* field was built with, it returns the text of the field; with another
\* value= it is a new field and returns value=.
TextInput(widget, value) ==
    IF widget # None /\ widget[1].value = value THEN widget[1].text ELSE value

\* the page as it would be with the else branch of line 271 lost
RenderPageNoEmptyState(arts) ==
    [exception |-> FALSE,
     count |-> Len(arts),
     cards |-> IF arts # <<>>
               THEN [i \in 1..Len(arts) |-> [column |-> (i - 1) % 2, article |-> arts[i]]]
               ELSE <<>>,
     empty |-> FALSE]

\* lines 225-233 and 254-277: the count badge, then the cards in two
\* columns or the empty-state message
RenderPage(arts) ==
    [exception |-> FALSE,
     count |-> Len(arts),
     cards |-> IF arts # <<>>
               THEN [i \in 1..Len(arts) |-> [column |-> (i - 1) % 2, article |-> arts[i]]]
               ELSE <<>>,
     empty |-> ~(arts # <<>>)]

\* the traceback Streamlit shows in place of the rest of the page
ExceptionPage == [exception |-> TRUE, count |-> 0, cards |-> <<>>, empty |-> FALSE]

BlankPage == [exception |-> FALSE, count |-> 0, cards |-> <<>>, empty |-> FALSE]

AppInit ==
    /\ pc = "start"
    /\ quick_query = None
    /\ default_query = DefaultQuery
    /\ query = DefaultQuery
    /\ num_articles = SliderDefault
    /\ clicked = None
    /\ textInput = None
    /\ sliderValue = SliderDefault
    /\ articles = <<>>
    /\ page = BlankPage
    /\ cache = [k \in Keys |-> None]
    /\ now = 0
    /\ ticks = 0
    /\ netReads = 0
    /\ pressed = None
    /\ lastRead = [k \in Keys |-> None]
    /\ lastCall = None

FetchIdle == entries = <<>> /\ num = 0 /\ result = None

Init == AppInit /\ FetchIdle

Waiting == pc \in {"idle", "error"}

\* the user commits another text in the text field
TypeQuery(q) ==
    /\ Waiting
    /\ textInput # None
    /\ q # textInput[1].text
    /\ textInput' = Some([textInput[1] EXCEPT !.text = q])
    /\ clicked' = None
    /\ pressed' = None
    /\ pc' = "start"
    /\ UNCHANGED <<quick_query, default_query, query, num_articles, sliderValue,
                   articles, page, cache, now, ticks, netReads, lastRead,
                   lastCall, fetchVars>>

\* the user moves the slider
MoveSlider(n) ==
    /\ Waiting
    /\ n # sliderValue
    /\ sliderValue' = n
    /\ clicked' = None
    /\ pressed' = None
    /\ pc' = "start"
    /\ UNCHANGED <<quick_query, default_query, query, num_articles, textInput,
                   articles, page, cache, now, ticks, netReads, lastRead,
                   lastCall, fetchVars>>

\* the user presses the quick-tag button t
ClickTag(t) ==
    /\ Waiting
    /\ clicked' = Some(t)
    /\ pressed' = Some([tag |-> t,
                        text |-> IF textInput = None THEN DefaultQuery
                                 ELSE textInput[1].text])
    /\ pc' = "start"
    /\ UNCHANGED <<quick_query, default_query, query, num_articles, textInput,
                   sliderValue, articles, page, cache, now, ticks, netReads,
                   lastRead, lastCall, fetchVars>>

\* the cache window passes between two interactions
PageTick ==
    /\ Waiting
    /\ ticks < MaxPageTicks
    /\ now' = now + TTL
    /\ ticks' = ticks + 1
    /\ UNCHANGED <<pc, quick_query, default_query, query, num_articles, clicked,
                   textInput, sliderValue, articles, page, cache, netReads,
                   pressed, lastRead, lastCall, fetchVars>>

\* line 180
PopDefault ==
    /\ pc = "start"
    /\ default_query' = PopQuery(quick_query).value
    /\ quick_query' = PopQuery(quick_query).state
    /\ pc' = "sidebar"
    /\ UNCHANGED <<query, num_articles, clicked, textInput, sliderValue, articles,
                   page, cache, now, ticks, netReads, pressed, lastRead,
                   lastCall, fetchVars>>

\* lines 182-208: the text field, the slider and the six buttons; the
\* pressed button stores its label and st.rerun() starts the script again
Sidebar ==
    /\ pc = "sidebar"
    /\ query' = TextInput(textInput, default_query)
    /\ textInput' = Some([value |-> default_query,
                          text |-> TextInput(textInput, default_query)])
    /\ num_articles' = sliderValue
    /\ IF clicked # None
       THEN /\ quick_query' = Some(clicked[1])
            /\ pc' = "start"
       ELSE /\ quick_query' = quick_query
            /\ pc' = "fetch"
    /\ clicked' = None
    /\ UNCHANGED <<default_query, sliderValue, articles, page, cache, now, ticks,
                   netReads, pressed, lastRead, lastCall, fetchVars>>

\* lines 221-222: the call of the decorated fetch_news; an exception ends
\* the run
Fetch ==
    /\ pc = "fetch"
    /\ \E feed \in NetFeeds :
          LET r == CachedFetch(cache, query, num_articles, now, feed)
          IN  /\ r.network => netReads < MaxReads
              /\ netReads' = IF r.network THEN netReads + 1 ELSE netReads
              /\ cache' = r.cache
              /\ lastCall' = Some([key |-> <<query, num_articles>>,
                                   network |-> r.network,
                                   feed |-> IF r.network THEN feed ELSE <<>>,
                                   raised |-> r.raised])
              /\ IF r.raised
                 THEN pc' = "error" /\ page' = ExceptionPage /\ articles' = articles
                 ELSE pc' = "render" /\ page' = page /\ articles' = r.articles
    /\ UNCHANGED <<quick_query, default_query, query, num_articles, clicked,
                   textInput, sliderValue, now, ticks, pressed, lastRead,
                   fetchVars>>

\* lines 225-277
Render ==
    /\ pc = "render"
    /\ page' = RenderPage(articles)
    /\ pc' = "idle"
    /\ UNCHANGED <<quick_query, default_query, query, num_articles, clicked,
                   textInput, sliderValue, articles, cache, now, ticks, netReads,
                   pressed, lastRead, lastCall, fetchVars>>

Next ==
    \/ \E q \in TypedQueries : TypeQuery(q)
    \/ \E n \in SliderMoves : MoveSlider(n)
    \/ \E t \in Tags : ClickTag(t)
    \/ PageTick
    \/ PopDefault
    \/ Sidebar
    \/ Fetch
    \/ Render

Spec == Init /\ [][Next]_vars

\* ------------------------------------------------------------------------
\* A sequence of calls of the decorated fetch_news, the clock advancing
\* between them
\* ------------------------------------------------------------------------
CallQueries == {DefaultQuery, "LLM"}

CallLimits == {SliderMin, SliderMax}

\* the seconds by which the clock advances between two calls
TickAmounts == {1, TTL - 1}

Call(q, n) ==
    /\ \E feed \in NetFeeds :
          LET r == CachedFetch(cache, q, n, now, feed)
          IN  /\ r.network => netReads < MaxReads
              /\ netReads' = IF r.network THEN netReads + 1 ELSE netReads
              /\ cache' = r.cache
              /\ articles' = r.articles
              /\ lastCall' = Some([key |-> <<q, n>>, network |-> r.network,
                                   feed |-> IF r.network THEN feed ELSE <<>>,
                                   raised |-> r.raised])
              /\ lastRead' = IF r.network /\ ~r.raised
                             THEN [lastRead EXCEPT
                                      ![<<q, n>>] = Some([at |-> now, val |-> r.articles])]
                             ELSE lastRead
    /\ UNCHANGED <<pc, quick_query, default_query, query, num_articles, clicked,
                   textInput, sliderValue, page, now, ticks, pressed, fetchVars>>

Tick(d) ==
    /\ ticks < MaxTicks
    /\ now' = now + d
    /\ ticks' = ticks + 1
    /\ UNCHANGED <<pc, quick_query, default_query, query, num_articles, clicked,
                   textInput, sliderValue, articles, page, cache, netReads,
                   pressed, lastRead, lastCall, fetchVars>>

NextCache ==
    \/ \E q \in CallQueries, n \in CallLimits : Call(q, n)
    \/ \E d \in TickAmounts : Tick(d)

SpecCache == Init /\ [][NextCache]_vars

\* ------------------------------------------------------------------------
\* One direct call of the undecorated fetch_news on each feed
\* ------------------------------------------------------------------------
InitFetch ==
    /\ AppInit
    /\ entries \in Feeds
    /\ num \in 0..MaxLimit
    /\ result = None

FetchCall ==
    /\ result = None
    /\ result' = Some(fetch_news(entries, num))
    /\ UNCHANGED <<entries, num, appVars>>

NextFetch == FetchCall

SpecFetch == InitFetch /\ [][NextFetch]_vars

\* ------------------------------------------------------------------------
\* Properties
\* ------------------------------------------------------------------------
Returned == result # None /\ ~result[1].raised

Arts == result[1].articles

Chars(s) == {s[i] : i \in 1..Len(s)}

\* The number of characters s stands for once its entities are decoded: the
\* positions of s that do not continue an entity.  An entity of html.escape
\* has at most six characters, from "&" to ";".
InEntity(s, p) ==
    \E i \in (IF p > 5 THEN p - 5 ELSE 1)..(p - 1) :
        s[i] = "&" /\ \A j \in i..(p - 1) : s[j] # ";"

DecodedLen(s) == Cardinality({p \in 1..Len(s) : ~InEntity(s, p)})

\* C1 (SpecCache): a call with a pair whose last network read returned less
\* than 300 seconds ago makes no network read and returns the list of that
\* read; a call with a pair whose last network read is 300 seconds old or
\* older makes a new network read.
C1_CacheWindow ==
    [][now' = now =>
        LET k == lastCall'[1].key
            h == lastRead[k]
        IN  h # None =>
                IF now - h[1].at < TTL
                THEN /\ ~lastCall'[1].network
                     /\ ~lastCall'[1].raised
                     /\ articles' = h[1].val
                ELSE lastCall'[1].network]_vars

\* a call served from the cache 299 seconds after the network read
C1_Witness ==
    /\ lastCall # None
    /\ ~lastCall[1].network
    /\ lastRead[lastCall[1].key] # None
    /\ now - lastRead[lastCall[1].key][1].at = TTL - 1
    /\ articles = lastRead[lastCall[1].key][1].val
    /\ articles # <<>>

\* C2 (Spec): in the run that follows the press of the quick-tag button T,
\* fetch_news is called with query = T, whatever the text field held.
C2_TagSetsQuery ==
    /\ (pressed # None /\ pc = "fetch") => query = pressed[1].tag
    /\ (pressed # None /\ pc \in {"render", "idle", "error"}) =>
            lastCall # None /\ lastCall[1].key[1] = pressed[1].tag

\* the field held a typed text when "LLM" was pressed, and the call is due
C2_Witness ==
    /\ pressed # None
    /\ pressed[1].tag = "LLM"
    /\ pressed[1].text = "Rust"
    /\ pc = "fetch"
    /\ query = "LLM"

\* C3 (Spec): no run of the page ends with an exception of the fetch step.
C3_FailuresAbsorbed == pc # "error" /\ ~page.exception

\* C4 as stated (SpecFetch): every summary field has at most 301 characters.
C4_SummaryAtMost301 ==
    Returned => \A i \in 1..Len(Arts) : Len(Arts[i].summary) <= TruncLen + 1

\* C4 as amended (SpecFetch): every summary field stands for at most 301
\* characters once its entities are decoded, and has itself at most
\* 6 * 300 + 1 characters.
C4_DecodedSummaryAtMost301 ==
    Returned =>
        \A i \in 1..Len(Arts) :
            /\ DecodedLen(Arts[i].summary) <= TruncLen + 1
            /\ Len(Arts[i].summary) <= 6 * TruncLen + 1

\* a summary cut at 300 characters whose escaped form is longer than 301
C4_Witness ==
    /\ Returned
    /\ Len(Arts) = 1
    /\ entries[1].summary # None
    /\ Len(entries[1].summary[1]) > TruncLen
    /\ DecodedLen(Arts[1].summary) = TruncLen + 1
    /\ Len(Arts[1].summary) > TruncLen + 1

\* C5 (SpecFetch): no title and no summary of a returned article holds a
\* "<" or a ">".
C5_NoRawAngleBrackets ==
    Returned =>
        \A i \in 1..Len(Arts) :
            /\ Chars(Arts[i].title) \cap {"<", ">"} = {}
            /\ Chars(Arts[i].summary) \cap {"<", ">"} = {}

\* an entry whose title holds a tag and whose summary holds a "<" that the
\* tag stripping leaves in place
C5_Witness ==
    /\ Returned
    /\ Len(Arts) = 1
    /\ entries[1].title = Some(<<"<", "b", ">", "x">>)
    /\ entries[1].summary = Some(<<"x", "<", "y">>)
    /\ Arts[1].summary = <<"x", "&", "l", "t", ";", "y">>

\* C6 (SpecFetch): the call returns min(N, num) articles, the i-th derived
\* from the i-th entry of the feed.
C6_PrefixOfFeed ==
    result # None =>
        /\ ~result[1].raised
        /\ Len(Arts) = Min(Len(entries), num)
        /\ \A i \in 1..Len(Arts) : Arts[i] = Article(entries[i])

\* C7 (Spec): a finished run whose fetch found no entry shows the
\* empty-state message, no card and the count 0; a finished run with at
\* least one article does not show the empty-state message.
C7_EmptyState ==
    pc = "idle" =>
        /\ ((lastCall[1].network /\ lastCall[1].feed = <<>>) \/ articles = <<>>) =>
                page.empty /\ page.cards = <<>> /\ page.count = 0
        /\ Len(articles) >= 1 =>
                ~page.empty /\ page.count = Len(articles)
                    /\ Len(page.cards) = Len(articles)

\* a finished run whose network read found an empty feed
C7_Witness ==
    /\ pc = "idle"
    /\ lastCall[1].network
    /\ lastCall[1].feed = <<>>
    /\ page.empty
    /\ page.count = 0

\* C8 (SpecFetch): an entry among the first num whose publish time or
\* summary is missing still yields an article, with published empty when
\* there is no publish information and the placeholder as summary when
\* there is no summary.
NoPublishInfo(e) ==
    (e.published_parsed = None \/ e.published_parsed[1] = <<>>) /\ e.published = None

C8_MissingOptionalFields ==
    result # None =>
        \A i \in 1..Min(Len(entries), num) :
            (NoPublishInfo(entries[i]) \/ entries[i].summary = None) =>
                /\ ~result[1].raised
                /\ NoPublishInfo(entries[i]) => Arts[i].published = <<>>
                /\ entries[i].summary = None => Arts[i].summary = Placeholder

\* C9 (SpecFetch): published is the formatted time when a time tuple is
\* present and names a date; the raw publish text (or the empty text) when
\* the tuple names no date; the raw publish text when there is no tuple.
\* A tuple that names no date does not make the call raise.
C9_PublishedDecision ==
    result # None =>
        /\ Returned =>
            \A i \in 1..Len(Arts) :
                LET e == entries[i]
                    raw == IF e.published = None THEN <<>> ELSE e.published[1]
                    structured == e.published_parsed # None /\ e.published_parsed[1] # <<>>
                IN  /\ (structured /\ DatetimeOk(Take(e.published_parsed[1], 6))) =>
                            Arts[i].published = Strftime(Take(e.published_parsed[1], 6))
                    /\ (structured /\ ~DatetimeOk(Take(e.published_parsed[1], 6))) =>
                            Arts[i].published = raw
                    /\ ~structured => Arts[i].published = raw
                    /\ e.published_parsed = Some(<<2024, 2, 29, 9, 5, 7, 3, 60, 0>>) =>
                            Arts[i].published =
                                <<"2", "0", "2", "4", "U5E74", "0", "2", "U6708",
                                  "2", "9", "U65E5", " ", "0", "9", ":", "0", "5">>
        /\ (\A i \in 1..Min(Len(entries), num) :
                entries[i].title # None /\ entries[i].link # None) => ~result[1].raised

\* a time tuple for 29 February 2023 beside a raw publish text
C9_Witness ==
    /\ Returned
    /\ Len(Arts) = 1
    /\ entries[1].published_parsed = Some(<<2023, 2, 29, 9, 5, 7, 2, 60, 0>>)
    /\ entries[1].published = Some(<<"M", "o", "n">>)
    /\ Arts[1].published = <<"M", "o", "n">>

\* C10 (Spec): an override is stored only between the st.rerun() of the
\* press and line 180 of the run it starts; it is the default query of that
\* run, and every other run has the fixed default query.
C10_OverrideConsumedOnce ==
    /\ quick_query # None =>
            pc = "start" /\ pressed # None /\ quick_query = Some(pressed[1].tag)
    /\ pc \in {"sidebar", "fetch", "render", "idle", "error"} =>
            default_query = IF pressed # None /\ clicked = None
                            THEN pressed[1].tag ELSE DefaultQuery

\* the run after a press is finished: the override was its default query
\* and is gone
C10_Witness ==
    /\ pc = "idle"
    /\ pressed # None
    /\ default_query = pressed[1].tag
    /\ quick_query = None

====
